---- MODULE Spec2Model ----
(***************************************************************************)
(* Model of generate_camera_path.py (the camera-path generator) and of     *)
(* portfolio_app/views.py (the page handler).                              *)
(*                                                                         *)
(* The generator is modelled statement by statement: pc names the source   *)
(* line about to execute.  The external fbx library is the environment:    *)
(* every Create call returns either a handle ("ok") or None ("null"),      *)
(* Initialize and Export return a true or a false status.  Calling a       *)
(* method on None raises AttributeError, which nothing in the script       *)
(* catches.                                                                *)
(***************************************************************************)
EXTENDS Integers, Sequences, FiniteSets, TLC

VARIABLES
    libAvailable,   \* whether "import fbx" succeeds
    asScript,       \* TRUE: run as __main__; FALSE: imported, a caller calls the function
    pc,             \* position of the process / of the current call
    exitStatus,     \* <<>> while the process runs, <<code>> once it has exited
    calls,          \* number of calls of create_camera_path_fbx started
    output_file,    \* argument of the current call
    sdk_manager, ios, scene, path, exporter,   \* handles: "unset", "ok", "null"
    live,           \* library objects acquired by the current call and not destroyed
    curve,          \* properties set on the curve: order, dimension, count, step
    writes,         \* SetControlPointAt calls of the current call, in order
    i,              \* loop variable of the for loop
    attached,       \* curve added to the scene's root node
    export_status,  \* result of exporter.Initialize: "unset", "ok", "fail"
    exported,       \* result of exporter.Export: "unset", "ok", "fail"
    result,         \* outcome of the current call: "none", "True", "False", "raised"
    out,            \* console output of the process
    outMark,        \* Len(out) when the current call started
    files,          \* files that exist on disk (possibly partial)
    steps,          \* library steps executed by the current call, in order
    history,        \* the writes of every earlier call
    renderCalls,    \* page handler: calls made to render
    returned        \* page handler: what index returned, per call

genVars == <<libAvailable, asScript, pc, exitStatus, calls, output_file,
             sdk_manager, ios, scene, path, exporter, live, curve, writes, i,
             attached, export_status, exported, result, out, outMark, files,
             steps, history>>
viewVars == <<renderCalls, returned>>
vars == <<genVars, viewVars>>

\* ---------------------------------------------------------------- bounds
MaxRuns == 2
MaxRequests == 3

\* ------------------------------------------------------------- constants
DefaultOutputFile == "static/models/camera_path.fbx"
OutputFiles == {DefaultOutputFile, "other.fbx"}
Order == 3
ControlPointCount == 10
Step == 4
LoopCount == 10
Template == "portfolio_app/index.html"
Requests == {"GET /", "POST /", "GET /?q=1"}
RenderOutcomes ==
    { [kind |-> "response", body |-> "page"],
      [kind |-> "response", body |-> "other page"],
      [kind |-> "raised", body |-> "TemplateDoesNotExist"] }

MsgNoSdk == <<"FBX SDK Python bindings not found. Please install the FBX SDK or use a pre-made FBX file.">>
MsgDownload == <<"You can download the FBX SDK from: ...">>
MsgNoManager == <<"Error: Unable to create FBX Manager!">>
MsgNoExporter == <<"Error: Unable to initialize exporter!">>
MsgTraceback == <<"Traceback (most recent call last): ...">>
\* every message is a tuple: its text, then the values formatted into it
MsgSuccess(f) == <<"FBX file created successfully: ", f>>

\* ------------------------------------------------------- control points
\* math.sin(t * math.pi * 2) * 5 and 2 + math.sin(t * math.pi) * 1 for
\* t = i / 9.0, in thousandths (rounded), indexed by i + 1.
SinX == <<0, 3214, 4924, 4330, 1710, -1710, -4330, -4924, -3214, 0>>
SinY == <<2000, 2342, 2643, 2866, 2985, 2985, 2866, 2643, 2342, 2000>>

X(k) == SinX[k + 1]
Y(k) == SinY[k + 1]
ZMut(k) == k * 10
Z(k) == -k * 10

ControlPointMut(k) == [x |-> X(k), y |-> Y(k), z |-> Z(k) - 10 * (calls - 1)]
ControlPoint(k) == [x |-> X(k), y |-> Y(k), z |-> Z(k)]

NoCurve == [order |-> 0, dimension |-> "unset", count |-> 0, step |-> 0]

\* ------------------------------------------------------------------ Init
InitCall ==
    /\ output_file = DefaultOutputFile
    /\ sdk_manager = "unset" /\ ios = "unset" /\ scene = "unset"
    /\ path = "unset" /\ exporter = "unset"
    /\ live = {}
    /\ curve = NoCurve
    /\ writes = <<>>
    /\ i = 0
    /\ attached = FALSE
    /\ export_status = "unset"
    /\ exported = "unset"
    /\ result = "none"
    /\ outMark = 0
    /\ steps = <<>>

Init ==
    /\ libAvailable \in BOOLEAN
    /\ asScript \in BOOLEAN
    /\ pc = "import"
    /\ exitStatus = <<>>
    /\ calls = 0
    /\ out = <<>>
    /\ files = {}
    /\ history = <<>>
    /\ InitCall
    /\ renderCalls = <<>>
    /\ returned = <<>>

\* --------------------------------------------------------------- helpers
procVars == <<libAvailable, asScript, exitStatus, calls, output_file, out,
              outMark, files, history>>
handleVars == <<sdk_manager, ios, scene, path, exporter>>
curveVars == <<curve, writes, i, attached>>
exportVars == <<export_status, exported>>

\* An uncaught exception leaves the function: nothing after the raising
\* statement runs.
Raise == /\ pc' = "raised"
         /\ result' = "raised"

\* ------------------------------------------------------ lines 8-13
ImportOk ==
    /\ pc = "import" /\ libAvailable
    /\ pc' = IF asScript THEN "main" ELSE "idle"
    /\ UNCHANGED <<procVars, handleVars, live, curveVars, exportVars, result, steps, viewVars>>

ImportFailMut ==
    /\ pc = "import" /\ ~libAvailable
    /\ out' = out \o <<MsgNoSdk, MsgDownload>>
    /\ pc' = IF asScript THEN "main" ELSE "idle"
    /\ UNCHANGED <<libAvailable, asScript, exitStatus, calls, output_file, outMark, files, history,
                   handleVars, live, curveVars, exportVars, result, steps, viewVars>>

ImportFail ==
    /\ pc = "import" /\ ~libAvailable
    /\ out' = out \o <<MsgNoSdk, MsgDownload>>
    /\ exitStatus' = <<1>>
    /\ pc' = "exited"
    /\ UNCHANGED <<libAvailable, asScript, calls, output_file, outMark, files, history,
                   handleVars, live, curveVars, exportVars, result, steps, viewVars>>

\* ------------------------------------------------------ entering a call
\* Entry of create_camera_path_fbx(f): fresh locals; the writes of the call
\* that just ended are kept in history.
Enter(f) ==
    /\ calls' = calls + 1
    /\ output_file' = f
    /\ history' = IF calls = 0 THEN history ELSE Append(history, writes)
    /\ sdk_manager' = "unset" /\ ios' = "unset" /\ scene' = "unset"
    /\ path' = "unset" /\ exporter' = "unset"
    /\ live' = {}
    /\ curve' = NoCurve
    /\ writes' = <<>>
    /\ i' = 0
    /\ attached' = FALSE
    /\ export_status' = "unset"
    /\ exported' = "unset"
    /\ result' = "none"
    /\ outMark' = Len(out)
    /\ steps' = <<>>
    /\ pc' = "L18"
    /\ UNCHANGED <<libAvailable, asScript, exitStatus, out, files, viewVars>>

\* lines 73-74
Main ==
    /\ pc = "main"
    /\ Enter(DefaultOutputFile)

\* The module imported by another program, which calls the function.
Call ==
    /\ ~asScript
    /\ pc \in {"idle", "returned", "raised"}
    /\ calls < MaxRuns
    /\ \E f \in OutputFiles : Enter(f)

\* ------------------------------------------------------ the function body
fixedVars == <<libAvailable, asScript, exitStatus, calls, output_file, outMark,
               history, renderCalls, returned>>
Handles == {"ok", "null"}
Log(name) == steps' = Append(steps, name)

\* line 18
CreateManager ==
    /\ pc = "L18"
    /\ \E h \in Handles :
         /\ sdk_manager' = h
         /\ live' = IF h = "ok" THEN live \cup {"manager"} ELSE live
    /\ Log("FbxManager.Create")
    /\ pc' = "L19"
    /\ UNCHANGED <<fixedVars, ios, scene, path, exporter, curveVars, exportVars,
                   result, out, files>>

\* lines 19-21, sdk_manager is None
ManagerMissing ==
    /\ pc = "L19" /\ sdk_manager = "null"
    /\ out' = Append(out, MsgNoManager)
    /\ result' = "False"
    /\ pc' = "returned"
    /\ UNCHANGED <<fixedVars, handleVars, live, curveVars, exportVars, files, steps>>

\* line 19, sdk_manager is a handle
ManagerPresent ==
    /\ pc = "L19" /\ sdk_manager = "ok"
    /\ pc' = "L24"
    /\ UNCHANGED <<fixedVars, handleVars, live, curveVars, exportVars, result,
                   out, files, steps>>

\* lines 24-25
CreateIOSettings ==
    /\ pc = "L24"
    /\ \E h \in Handles :
         /\ ios' = h
         /\ live' = IF h = "ok" THEN live \cup {"ios"} ELSE live
    /\ Log("FbxIOSettings.Create")
    /\ pc' = "L28"
    /\ UNCHANGED <<fixedVars, sdk_manager, scene, path, exporter, curveVars,
                   exportVars, result, out, files>>

\* line 28: the returned handle is not tested
CreateScene ==
    /\ pc = "L28"
    /\ \E h \in Handles :
         /\ scene' = h
         /\ live' = IF h = "ok" THEN live \cup {"scene"} ELSE live
    /\ Log("FbxScene.Create")
    /\ pc' = "L31"
    /\ UNCHANGED <<fixedVars, sdk_manager, ios, path, exporter, curveVars,
                   exportVars, result, out, files>>

\* line 31: the returned handle is not tested.  With scene = None the
\* container argument is None; the binding may accept it (this action) or
\* reject the argument (CreateCurveRaises).
CreateCurve ==
    /\ pc = "L31"
    /\ \E h \in Handles :
         /\ path' = h
         /\ live' = IF h = "ok" THEN live \cup {"curve"} ELSE live
    /\ Log("FbxNurbsCurve.Create")
    /\ pc' = "L34"
    /\ UNCHANGED <<fixedVars, sdk_manager, ios, scene, exporter, curveVars,
                   exportVars, result, out, files>>

CreateCurveRaises ==
    /\ pc = "L31" /\ scene = "null"
    /\ Raise
    /\ UNCHANGED <<fixedVars, handleVars, live, curveVars, exportVars, out,
                   files, steps>>

\* lines 34-37
SetCurveProperties ==
    /\ pc = "L34" /\ path = "ok"
    /\ curve' = [order |-> Order, dimension |-> "e3D",
                 count |-> ControlPointCount, step |-> Step]
    /\ Log("SetCurveProperties")
    /\ pc' = "L40"
    /\ UNCHANGED <<fixedVars, handleVars, live, writes, i, attached, exportVars,
                   result, out, files>>

\* line 34 with path = None: AttributeError
SetCurvePropertiesRaises ==
    /\ pc = "L34" /\ path = "null"
    /\ Raise
    /\ UNCHANGED <<fixedVars, handleVars, live, curveVars, exportVars, out,
                   files, steps>>

\* lines 40-49, one iteration; i is the next value range(10) yields
LoopBodyMut ==
    /\ pc = "L40" /\ i < LoopCount
    /\ writes' = Append(writes, [idx |-> i + 1, pt |-> ControlPoint(i)])
    /\ i' = i + 1
    /\ Log("SetControlPointAt")
    /\ UNCHANGED <<fixedVars, pc, handleVars, live, curve, attached, exportVars,
                   result, out, files>>

LoopBody ==
    /\ pc = "L40" /\ i < LoopCount
    /\ writes' = Append(writes, [idx |-> i, pt |-> ControlPoint(i)])
    /\ i' = i + 1
    /\ Log("SetControlPointAt")
    /\ UNCHANGED <<fixedVars, pc, handleVars, live, curve, attached, exportVars,
                   result, out, files>>

\* line 40, range(10) exhausted
LoopExit ==
    /\ pc = "L40" /\ i >= LoopCount
    /\ pc' = "L52"
    /\ UNCHANGED <<fixedVars, handleVars, live, curveVars, exportVars, result,
                   out, files, steps>>

\* line 52
AttachCurve ==
    /\ pc = "L52" /\ scene = "ok"
    /\ attached' = TRUE
    /\ Log("AddChild")
    /\ pc' = "L55"
    /\ UNCHANGED <<fixedVars, handleVars, live, curve, writes, i, exportVars,
                   result, out, files>>

\* line 52 with scene = None: AttributeError
AttachCurveRaises ==
    /\ pc = "L52" /\ scene = "null"
    /\ Raise
    /\ UNCHANGED <<fixedVars, handleVars, live, curveVars, exportVars, out,
                   files, steps>>

\* line 55
CreateExporter ==
    /\ pc = "L55"
    /\ \E h \in Handles :
         /\ exporter' = h
         /\ live' = IF h = "ok" THEN live \cup {"exporter"} ELSE live
    /\ Log("FbxExporter.Create")
    /\ pc' = "L58"
    /\ UNCHANGED <<fixedVars, sdk_manager, ios, scene, path, curveVars,
                   exportVars, result, out, files>>

\* line 58: a successful Initialize may already have created the file
InitializeExporter ==
    /\ pc = "L58" /\ exporter = "ok"
    /\ \E s \in {"ok", "fail"}, created \in BOOLEAN :
         /\ export_status' = s
         /\ (s = "fail" => ~created)
         /\ files' = IF created THEN files \cup {output_file} ELSE files
    /\ Log("Initialize")
    /\ pc' = "L59"
    /\ UNCHANGED <<fixedVars, handleVars, live, curveVars, exported, result, out>>

\* line 58 with exporter = None: AttributeError
InitializeExporterRaises ==
    /\ pc = "L58" /\ exporter = "null"
    /\ Raise
    /\ UNCHANGED <<fixedVars, handleVars, live, curveVars, exportVars, out,
                   files, steps>>

\* lines 59-61: returns without destroying exporter or manager
InitFailed ==
    /\ pc = "L59" /\ export_status = "fail"
    /\ out' = Append(out, MsgNoExporter)
    /\ result' = "False"
    /\ pc' = "returned"
    /\ UNCHANGED <<fixedVars, handleVars, live, curveVars, exportVars, files, steps>>

\* line 59, export_status is true
InitSucceededMut ==
    /\ pc = "L59"
    /\ pc' = "L64"
    /\ UNCHANGED <<fixedVars, handleVars, live, curveVars, exportVars, result,
                   out, files, steps>>

InitSucceeded ==
    /\ pc = "L59" /\ export_status = "ok"
    /\ pc' = "L64"
    /\ UNCHANGED <<fixedVars, handleVars, live, curveVars, exportVars, result,
                   out, files, steps>>

\* line 64: the status Export returns is discarded.  A successful export
\* leaves the file on disk; a failed one may leave a partial file.
Export ==
    /\ pc = "L64"
    /\ \E s \in {"ok", "fail"}, written \in BOOLEAN :
         /\ exported' = s
         /\ (s = "ok" => written)
         /\ files' = IF written THEN files \cup {output_file} ELSE files
    /\ Log("Export")
    /\ pc' = "L67"
    /\ UNCHANGED <<fixedVars, handleVars, live, curveVars, export_status, result, out>>

\* line 67
DestroyExporter ==
    /\ pc = "L67"
    /\ live' = live \ {"exporter"}
    /\ Log("exporter.Destroy")
    /\ pc' = "L68"
    /\ UNCHANGED <<fixedVars, handleVars, curveVars, exportVars, result, out, files>>

\* line 68: destroying the manager destroys every object it owns
DestroyManager ==
    /\ pc = "L68"
    /\ live' = {}
    /\ Log("sdk_manager.Destroy")
    /\ pc' = "L70"
    /\ UNCHANGED <<fixedVars, handleVars, curveVars, exportVars, result, out, files>>

\* lines 70-71
ReportSuccessMut ==
    /\ pc = "L70"
    /\ out' = IF exported = "ok" THEN Append(out, MsgSuccess(output_file)) ELSE out
    /\ result' = IF exported = "ok" THEN "True" ELSE "False"
    /\ pc' = "returned"
    /\ UNCHANGED <<fixedVars, handleVars, live, curveVars, exportVars, files, steps>>

ReportSuccess ==
    /\ pc = "L70"
    /\ out' = Append(out, MsgSuccess(output_file))
    /\ result' = "True"
    /\ pc' = "returned"
    /\ UNCHANGED <<fixedVars, handleVars, live, curveVars, exportVars, files, steps>>

\* line 74 returns and the interpreter ends: the returned value is discarded
ExitScript ==
    /\ asScript /\ pc = "returned"
    /\ exitStatus' = <<0>>
    /\ pc' = "exited"
    /\ UNCHANGED <<libAvailable, asScript, calls, output_file, outMark, history,
                   handleVars, live, curveVars, exportVars, result, out, files,
                   steps, viewVars>>

\* an exception nothing catches: the interpreter prints the traceback and
\* exits with status 1
ExitUncaught ==
    /\ asScript /\ pc = "raised"
    /\ out' = Append(out, MsgTraceback)
    /\ exitStatus' = <<1>>
    /\ pc' = "exited"
    /\ UNCHANGED <<libAvailable, asScript, calls, output_file, outMark, history,
                   handleVars, live, curveVars, exportVars, result, files,
                   steps, viewVars>>

Next ==
    \/ ImportOk \/ ImportFail \/ Main \/ Call
    \/ CreateManager \/ ManagerMissing \/ ManagerPresent
    \/ CreateIOSettings \/ CreateScene \/ CreateCurve \/ CreateCurveRaises
    \/ SetCurveProperties \/ SetCurvePropertiesRaises
    \/ LoopBody \/ LoopExit
    \/ AttachCurve \/ AttachCurveRaises
    \/ CreateExporter \/ InitializeExporter \/ InitializeExporterRaises
    \/ InitFailed \/ InitSucceeded
    \/ Export \/ DestroyExporter \/ DestroyManager \/ ReportSuccess
    \/ ExitScript \/ ExitUncaught

Spec == Init /\ [][Next]_vars

\* ------------------------------------------------------ views.py, index
\* render(request, 'portfolio_app/index.html'): the renderer is the
\* framework's; what it produces (a response, or an exception) is its own
\* choice and reaches the caller of index as it is.
Render(request, template, context, outcome) ==
    renderCalls' = Append(renderCalls,
        [request |-> request, template |-> template, context |-> context,
         outcome |-> outcome])

IndexMut(request, outcome) ==
    /\ Len(returned) < MaxRequests
    /\ Render(request, IF request = "GET /" THEN Template ELSE "portfolio_app/other.html",
              {request}, outcome)
    /\ returned' = Append(returned, outcome)
    /\ UNCHANGED genVars

index(request, outcome) ==
    /\ Len(returned) < MaxRequests
    /\ Render(request, Template, {}, outcome)
    /\ returned' = Append(returned, outcome)
    /\ UNCHANGED genVars

HandleRequest == \E request \in Requests, outcome \in RenderOutcomes : index(request, outcome)

NextView == HandleRequest

SpecView == Init /\ [][NextView]_vars

\* ====================================================== properties
CallEnded == result # "none"
PrintedByCall(m) == \E k \in (outMark + 1)..Len(out) : out[k] = m
IsPrefix(s, t) == Len(s) <= Len(t) /\ \A k \in 1..Len(s) : s[k] = t[k]

\* C1: on every return of create_camera_path_fbx (success, manager-creation
\* failure, exporter-initialization failure) every library object acquired
\* during the call has been destroyed.
C1_ReleasedOnEveryReturn ==
    (pc = "returned" /\ result \in {"True", "False"}) => live = {}

\* C2: when the fbx bindings cannot be imported the process ends with exit
\* status 1, no call of the pipeline is started, no library step runs and no
\* output file is created.
C2_MissingLibraryStopsTheRun ==
    ~libAvailable =>
        /\ pc \in {"import", "exited"}
        /\ calls = 0
        /\ steps = <<>>
        /\ export_status = "unset" /\ exported = "unset"
        /\ files = {}
        /\ (pc = "exited" => exitStatus = <<1>>)

C2_Witness ==
    ~libAvailable /\ pc = "exited" /\ exitStatus = <<1>> /\ Len(out) = 2

\* C3: when the manager, the scene or the curve comes back as a null handle,
\* the call prints an error and returns False, and sets no control point,
\* initializes no exporter and exports nothing.
C3_NullHandleReportsAndReturnsFalse ==
    ("null" \in {sdk_manager, scene, path}) =>
        /\ writes = <<>>
        /\ export_status = "unset"
        /\ exported = "unset"
        /\ (CallEnded =>
              /\ result = "False"
              /\ \/ PrintedByCall(MsgNoManager)
                 \/ PrintedByCall(MsgNoExporter))

\* C4: SetControlPointAt is called only after the count was set to 10, with
\* the indices 0, 1, 2, ... in this order and never outside 0..9, and a run
\* that reaches Export has made exactly the ten calls for 0..9.
C4_TenPointsInIndexOrder ==
    /\ \A k \in 1..Len(writes) :
         /\ writes[k].idx = k - 1
         /\ writes[k].idx \in 0..9
         /\ curve.count = 10
    /\ Len(writes) <= 10
    /\ (pc = "L64" \/ exported # "unset") => Len(writes) = 10

C4_Witness ==
    pc = "L64" /\ Len(writes) = 10 /\ writes[10].idx = 9

\* C5: the control point stored at index i has z = -10 * i: 0 at index 0,
\* -90 at index 9, each 10 less than the one before.
C5_ZIsMinusTenTimesIndex ==
    /\ \A k \in 1..Len(writes) : writes[k].pt.z = -10 * writes[k].idx
    /\ \A k \in 2..Len(writes) : writes[k].pt.z = writes[k - 1].pt.z - 10
    /\ (Len(writes) >= 1 => writes[1].pt.z = 0)
    /\ (Len(writes) >= 10 => writes[10].pt.z = -90)

C5_Witness ==
    Len(writes) = 10 /\ writes[10].idx = 9 /\ writes[10].pt.z = -90

\* C6: run as a script with the library available, the process always exits
\* with status 0: after a failed manager creation or exporter initialization
\* an error and no confirmation was printed, in every other run the
\* confirmation was printed.  Only the missing library gives a nonzero status.
C6_ScriptExitsZero ==
    (pc = "exited" /\ libAvailable) =>
        /\ exitStatus = <<0>>
        /\ IF sdk_manager = "null" \/ export_status = "fail"
           THEN /\ PrintedByCall(MsgNoManager) \/ PrintedByCall(MsgNoExporter)
                /\ ~PrintedByCall(MsgSuccess(output_file))
           ELSE PrintedByCall(MsgSuccess(output_file))

\* C7: a control point written at index i in one call equals the control
\* point written at index i in every earlier call, whatever the output files
\* of the calls were.
C7_SamePointsInEveryRun ==
    \A h \in 1..Len(history) :
      \A k \in 1..Len(writes), j \in 1..Len(history[h]) :
         writes[k].idx = history[h][j].idx => writes[k].pt = history[h][j].pt

C7_Witness ==
    /\ Len(history) >= 1 /\ Len(history[1]) = 10
    /\ Len(writes) = 10
    /\ output_file # DefaultOutputFile

\* C8: every call of index makes exactly one call of render, with the
\* template 'portfolio_app/index.html' and no context, whatever the request
\* and the earlier calls were, and what render produced is what index gives
\* back.
C8_IndexDelegatesToFixedTemplate ==
    /\ Len(renderCalls) = Len(returned)
    /\ \A k \in 1..Len(renderCalls) :
         /\ renderCalls[k].template = "portfolio_app/index.html"
         /\ renderCalls[k].context = {}
         /\ returned[k] = renderCalls[k].outcome

C8_Witness ==
    /\ Len(returned) >= 2
    /\ renderCalls[1].request # renderCalls[2].request
    /\ returned[1].kind = "response"
    /\ returned[1] # returned[2]

\* C9: the library steps of a call happen in the one fixed order (manager,
\* io settings, scene, curve, ten control points, attach, exporter,
\* Initialize, Export, destroy, report).  Export runs only after Initialize
\* returned success and the curve with its ten points was attached; after a
\* failed Initialize Export never runs, the error is printed and the call
\* returns False.
PipelineOrder ==
    <<"FbxManager.Create", "FbxIOSettings.Create", "FbxScene.Create",
      "FbxNurbsCurve.Create", "SetCurveProperties">>
    \o [k \in 1..10 |-> "SetControlPointAt"]
    \o <<"AddChild", "FbxExporter.Create", "Initialize", "Export",
         "exporter.Destroy", "sdk_manager.Destroy">>

C9_FixedStepOrder ==
    /\ IsPrefix(steps, PipelineOrder)
    /\ (exported # "unset" =>
           export_status = "ok" /\ attached /\ Len(writes) = 10)
    /\ (attached => Len(writes) = 10)
    /\ (export_status = "fail" =>
           /\ exported = "unset"
           /\ (CallEnded => result = "False" /\ PrintedByCall(MsgNoExporter)))
    /\ (result = "True" => steps = PipelineOrder)

C9_Witness ==
    /\ result = "True" /\ steps = PipelineOrder

C9_WitnessInitFailed ==
    export_status = "fail" /\ result = "False"

\* C10: a call whose exporter initialization succeeded ends by printing the
\* confirmation and returning True, also when Export itself returned failure.
C10_TrueWhateverExportReturns ==
    (export_status = "ok" /\ CallEnded) =>
        /\ result = "True"
        /\ PrintedByCall(MsgSuccess(output_file))

C10_Witness ==
    export_status = "ok" /\ exported = "fail" /\ result = "True"

====
